---- MODULE Spec2Model ----
(***************************************************************************)
(* Model of src/tester.py: the attempt executor worker_send and the two    *)
(* dispatch controllers run_sequential and run_parallel.                   *)
(*                                                                         *)
(* Python values are encoded as follows.                                   *)
(*   - strings whose content matters are sequences of one-character        *)
(*     strings (Chars); fixed message prefixes are TLA+ strings;           *)
(*   - an Optional value is a sequence of length at most one: None is the  *)
(*     empty sequence, Some(v) is <<v>>;                                   *)
(*   - a dict is a record (a function from key strings).                   *)
(* The browser (Playwright) is the environment: every browser call draws   *)
(* its outcome from a set given by the environment record E passed to the  *)
(* action.                                                                 *)
(***************************************************************************)
EXTENDS Integers, Sequences, FiniteSets, TLC

\* ---------------------------------------------------------------- bounds
\* largest --reps explored
MaxReps == 2
\* largest --workers explored
MaxWorkers == 2

\* ------------------------------------------------------- value encoding
None == << >>
Some(v) == << v >>

\* Python truthiness of an Optional[str]: None and "" are falsy.
Truthy(o) == o # None /\ o[1] # << >>

\* dict.get(key) with the default None; a stored value is returned as is.
Get(d, key) == IF key \in DOMAIN d THEN d[key] ELSE None

\* ------------------------------------------------------------- strings
UpperCase == <<"A", "B", "C", "D", "E", "F", "G", "H", "I", "J", "K", "L", "M", "N", "O", "P", "Q", "R", "S", "T", "U", "V", "W", "X", "Y", "Z">>
LowerCase == <<"a", "b", "c", "d", "e", "f", "g", "h", "i", "j", "k", "l", "m", "n", "o", "p", "q", "r", "s", "t", "u", "v", "w", "x", "y", "z">>

\* str.lower() on one character
LowerChar(c) == IF \E n \in 1..26 : UpperCase[n] = c THEN LowerCase[CHOOSE n \in 1..26 : UpperCase[n] = c] ELSE c

\* str.lower()
Lower(s) == [n \in 1..Len(s) |-> LowerChar(s[n])]

\* the Python operator `needle in hay` on strings
Contains(hay, needle) == \E n \in 0..(Len(hay) - Len(needle)) : SubSeq(hay, n + 1, n + Len(needle)) = needle

Digits == <<"0", "1", "2", "3", "4", "5", "6", "7", "8", "9">>

RECURSIVE Decimal(_)
\* str(n) for a natural number n, as interpolated by an f-string
Decimal(n) == IF n < 10 THEN << Digits[n + 1] >> ELSE Decimal(n \div 10) \o << Digits[(n % 10) + 1] >>

\* A message built by an f-string: a fixed prefix followed by the
\* interpolated text.
Msg(prefix, arg) == [prefix |-> prefix, arg |-> arg]

\* -------------------------------------------------- program constants
SUCCESS_MARKER == <<"t", "h", "a", "n", "k", " ", "y", "o", "u">>

BASE_PAYLOAD == << <<"field_option", "value_option">>, <<"screen", "submit">>, <<"formId", "123">>, <<"action", "submit">> >>

\* text.slice(0, 2000) in the in-page script
SnippetLimit == 2000

HTTP_OK == 200

\* ------------------------------------------------------------ payload
RECURSIVE DictSet(_, _, _)
\* d[key] = value on an insertion-ordered dict held as a sequence of pairs
DictSet(d, key, value) ==
    IF d = << >> THEN << <<key, value>> >>
    ELSE IF d[1][1] = key THEN << <<key, value>> >> \o Tail(d)
    ELSE << d[1] >> \o DictSet(Tail(d), key, value)

\* Variant: the nonce is tested with `is not None`, so an empty value is
\* appended too.
build_payload_nonce_not_none(trace, nonce) ==
    LET p == DictSet(BASE_PAYLOAD, "trace_id", trace)
    IN  IF nonce # None THEN DictSet(p, "_nonce", nonce[1]) ELSE p

\* Lines 60-73: copy BASE_PAYLOAD, set trace_id, set _nonce when truthy,
\* return the items in insertion order.
build_payload_with_trace(trace, nonce) ==
    LET p == DictSet(BASE_PAYLOAD, "trace_id", trace)
    IN  IF Truthy(nonce) THEN DictSet(p, "_nonce", nonce[1]) ELSE p

\* -------------------------------------------------------------- state
VARIABLES
    reps,               \* --reps
    workers,            \* --workers
    parallel,           \* --parallel
    wait_for_selector,  \* --wait-selector, Optional[str]
    w,                  \* w[k]: the frame of worker_send for attempt index k
    session,            \* indices whose browser is launched and not closed
    calls,              \* calls[k]: number of invocations of worker_send with index k
    dpc,                \* position of the dispatcher (run_sequential / run_parallel)
    i,                  \* loop variable of run_sequential
    out,                \* the list `out` of the dispatcher
    tasks,              \* run_parallel: indices of `args` not yet handed to a pool process
    resq,               \* run_parallel: results completed, not yet yielded by imap_unordered
    sleeps,             \* number of time.sleep calls completed or in progress
    returned            \* Optional: the list returned by the dispatcher

vars == <<reps, workers, parallel, wait_for_selector, w, session, calls, dpc, i, out, tasks, resq, sleeps, returned>>

config == <<reps, workers, parallel, wait_for_selector>>

Indices == 1..reps

\* The frame of worker_send before the call and after the return.
\* Besides the locals (result, nonce) it records what the call has done so
\* far: the outcome of each page.goto ("" when not executed), the number of
\* navigations, token lookups, selector waits and submissions, the request
\* sent and the outcome of page.evaluate.
Frame(pc) == [pc |-> pc, result |-> None, nonce |-> None, goto1 |-> "", goto2 |-> "", navs |-> 0, lookups |-> 0, waits |-> 0, submits |-> 0, sent |-> None, fetched |-> None]

\* Attempts inside worker_send
InFlight == {k \in Indices : w[k].pc \notin {"idle", "done"}}

\* ------------------------------------------------------- environment
\* str(e) of an exception raised by a browser call
ExcText == <<"e", "r", "r">>

BodyEmpty == << >>
BodyUpper == <<"O", "K", " ", "T", "H", "A", "N", "K", " ", "Y", "O", "U", "!">>
BodyMixed == <<"T", "h", "a", "n", "k", " ", "y", "o", "u">>
BodyMiss == <<"t", "h", "a", "n", "k", "s", " ", "y", "o", "u">>

\* Outcomes of page.evaluate(fetch_script): the call raises, the call
\* returns something that is not a dict, fetch() throws inside the page,
\* or the server answers with a status and a body.
EvalOutcome(kind, status, body) == [kind |-> kind, status |-> status, body |-> body]

Responses(statuses, bodies) == {EvalOutcome("response", s, b) : s \in statuses, b \in bodies}

\* Every outcome of every browser call, with several values of the data.
EnvFull ==
    [importOk |-> BOOLEAN,
     uuids |-> {"u1", "u2"},
     launch |-> {"ok", "raise_launch", "raise_context"},
     goto1 |-> {"ok", "timeout", "error"},
     goto2 |-> {"ok", "timeout", "error"},
     query |-> {"none", "value", "raise"},
     values |-> {None, Some(<< >>), Some(<<"a", "b", "c">>)},
     wait |-> {"ok", "timeout", "error"},
     evaluate |-> {EvalOutcome("raise", 0, << >>), EvalOutcome("nondict", 0, << >>), EvalOutcome("neterror", 0, << >>)}
                  \cup Responses({200, 201, 403, 500}, {BodyEmpty, BodyUpper, BodyMixed, BodyMiss}),
     close |-> {"ok", "raise"}]

\* Every outcome of every browser call, with one value of the data: the
\* dispatchers never look inside a result except for its index.
EnvCoarse ==
    [importOk |-> BOOLEAN,
     uuids |-> {"u1"},
     launch |-> {"ok", "raise_launch", "raise_context"},
     goto1 |-> {"ok", "timeout"},
     goto2 |-> {"ok", "timeout"},
     query |-> {"none", "raise"},
     values |-> {None},
     wait |-> {"ok", "timeout"},
     evaluate |-> {EvalOutcome("raise", 0, << >>)} \cup Responses({200, 403}, {BodyMixed}),
     close |-> {"ok", "raise"}]

\* ---------------------------------------------------------- worker_send
Res(k) == w[k].result[1]

SetFrame(k, f) == w' = [w EXCEPT ![k] = f]

\* The dict `result` of lines 102-109.
NewResult(k, trace) == [index |-> k, trace |-> Some(trace), ok |-> FALSE, http_status |-> None, message |-> None, response_snippet |-> None]

\* The dict returned at lines 93-99 (it has no response_snippet key).
ImportErrorResult(k) == [index |-> k, ok |-> FALSE, message |-> Some(Msg("Playwright import error: ", ExcText)), http_status |-> None, trace |-> None]

\* Lines 90-109: import Playwright, generate the trace, create `result`.
Import(k, E) ==
    /\ w[k].pc = "import"
    /\ \E ok \in E.importOk :
        IF ok
        THEN \E u \in E.uuids : SetFrame(k, [w[k] EXCEPT !.pc = "launch", !.result = Some(NewResult(k, <<"cli-", u>>))])
        ELSE SetFrame(k, [w[k] EXCEPT !.pc = "return", !.result = Some(ImportErrorResult(k))])
    /\ UNCHANGED <<config, session, calls, dpc, i, out, tasks, resq, sleeps, returned>>

\* Lines 112-115: start Playwright, launch the browser, open context and page.
\*   raise_launch : sync_playwright() or firefox.launch raises, no browser exists
\*   raise_context: the browser is launched, new_context or new_page raises
Launch(k, E) ==
    /\ w[k].pc = "launch"
    /\ \E o \in E.launch :
        /\ session' = IF o = "raise_launch" THEN session ELSE session \cup {k}
        /\ SetFrame(k, [w[k] EXCEPT !.pc = IF o = "ok" THEN "goto1" ELSE "unwind"])
    /\ UNCHANGED <<config, calls, dpc, i, out, tasks, resq, sleeps, returned>>

\* Variant: the inner handler catches every Exception, so any failure of
\* the first navigation is retried.
Goto1RetryAnyError(k, E) ==
    /\ w[k].pc = "goto1"
    /\ \E o \in E.goto1 :
        SetFrame(k, [w[k] EXCEPT !.navs = @ + 1, !.goto1 = o, !.pc = IF o = "ok" THEN "query" ELSE "goto2"])
    /\ UNCHANGED <<config, session, calls, dpc, i, out, tasks, resq, sleeps, returned>>

\* Lines 118-120: page.goto(wait_until="networkidle"); only PlaywrightTimeout
\* is caught by the inner handler.
Goto1(k, E) ==
    /\ w[k].pc = "goto1"
    /\ \E o \in E.goto1 :
        SetFrame(k, [w[k] EXCEPT !.navs = @ + 1, !.goto1 = o, !.pc = CASE o = "ok" -> "query" [] o = "timeout" -> "goto2" [] OTHER -> "unwind"])
    /\ UNCHANGED <<config, session, calls, dpc, i, out, tasks, resq, sleeps, returned>>

\* Variant: the handler of line 123 sets the message but neither closes nor
\* returns, so the attempt goes on to the token lookup and the submission.
Goto2FallThrough(k, E) ==
    /\ w[k].pc = "goto2"
    /\ \E o \in E.goto2 :
        IF o = "ok"
        THEN SetFrame(k, [w[k] EXCEPT !.navs = @ + 1, !.goto2 = o, !.pc = "query"])
        ELSE SetFrame(k, [w[k] EXCEPT !.navs = @ + 1, !.goto2 = o, !.pc = "query", !.result = Some([Res(k) EXCEPT !.message = Some(Msg("Failed to load page: ", ExcText))])])
    /\ UNCHANGED <<config, session, calls, dpc, i, out, tasks, resq, sleeps, returned>>

\* Lines 121-124: page.goto(wait_until="load"); any Exception sets the message.
Goto2(k, E) ==
    /\ w[k].pc = "goto2"
    /\ \E o \in E.goto2 :
        IF o = "ok"
        THEN SetFrame(k, [w[k] EXCEPT !.navs = @ + 1, !.goto2 = o, !.pc = "query"])
        ELSE SetFrame(k, [w[k] EXCEPT !.navs = @ + 1, !.goto2 = o, !.pc = "navclose", !.result = Some([Res(k) EXCEPT !.message = Some(Msg("Failed to load page: ", ExcText))])])
    /\ UNCHANGED <<config, session, calls, dpc, i, out, tasks, resq, sleeps, returned>>

\* Lines 125-126: browser.close() and return result inside the handler; an
\* exception of close() leaves the handler and the with block.
NavClose(k, E) ==
    /\ w[k].pc = "navclose"
    /\ \E o \in E.close :
        IF o = "ok"
        THEN session' = session \ {k} /\ SetFrame(k, [w[k] EXCEPT !.pc = "return"])
        ELSE session' = session /\ SetFrame(k, [w[k] EXCEPT !.pc = "unwind"])
    /\ UNCHANGED <<config, calls, dpc, i, out, tasks, resq, sleeps, returned>>

\* Variant: no handler around the token lookup, an exception of the lookup
\* reaches the handler of line 203.
QueryFatal(k, E) ==
    /\ w[k].pc = "query"
    /\ \E o \in E.query, v \in E.values :
        LET nonce == IF o = "value" THEN v ELSE None
            next == IF o = "raise" THEN "unwind" ELSE IF Truthy(wait_for_selector) THEN "wait" ELSE "evaluate"
        IN  SetFrame(k, [w[k] EXCEPT !.lookups = @ + 1, !.nonce = nonce, !.pc = next])
    /\ UNCHANGED <<config, session, calls, dpc, i, out, tasks, resq, sleeps, returned>>

\* Lines 129-134 and 141-142: look up the nonce input. An exception of
\* query_selector or get_attribute is swallowed by the handler of line 141,
\* which also skips the selector wait of lines 136-140.
Query(k, E) ==
    /\ w[k].pc = "query"
    /\ \E o \in E.query, v \in E.values :
        LET nonce == IF o = "value" THEN v ELSE None
            next == IF o # "raise" /\ Truthy(wait_for_selector) THEN "wait" ELSE "evaluate"
        IN  SetFrame(k, [w[k] EXCEPT !.lookups = @ + 1, !.nonce = nonce, !.pc = next])
    /\ UNCHANGED <<config, session, calls, dpc, i, out, tasks, resq, sleeps, returned>>

\* Lines 136-142: page.wait_for_selector; a timeout is passed at line 140,
\* any other Exception at line 142.
Wait(k, E) ==
    /\ w[k].pc = "wait"
    /\ \E o \in E.wait : SetFrame(k, [w[k] EXCEPT !.waits = @ + 1, !.pc = "evaluate"])
    /\ UNCHANGED <<config, session, calls, dpc, i, out, tasks, resq, sleeps, returned>>

\* Lines 150-176, the in-page script: what page.evaluate returns when it
\* returns. A dict is [isdict |-> TRUE, d |-> the dict].
FetchScript(o) ==
    CASE o.kind = "neterror" -> [isdict |-> TRUE, d |-> [error |-> ExcText]]
      [] o.kind = "response" -> [isdict |-> TRUE, d |-> [status |-> Some(o.status), ok |-> (o.status >= 200 /\ o.status <= 299), text |-> Some(SubSeq(o.body, 1, IF Len(o.body) < SnippetLimit THEN Len(o.body) ELSE SnippetLimit))]]
      [] OTHER -> [isdict |-> FALSE, d |-> [repr |-> <<"N", "o", "n", "e">>]]

\* f"HTTP {fetch_result.get('status')}"
StatusText(status) == IF status = None THEN <<"N", "o", "n", "e">> ELSE Decimal(status[1])

\* Variant: any 2xx status counts as success (resp.ok).
IsSuccessStatus2xx(status) == status # None /\ status[1] >= 200 /\ status[1] <= 299

\* Line 189: fetch_result.get("status") == 200
IsSuccessStatus(status) == status = Some(HTTP_OK)

\* Variant: the comparison is case-sensitive (no .lower() on the snippet).
MarkerFoundCaseSensitive(snippet) == Contains(IF Truthy(snippet) THEN snippet[1] ELSE << >>, Lower(SUCCESS_MARKER))

\* Line 190: SUCCESS_MARKER.lower() in (snippet or "").lower()
MarkerFound(snippet) == Contains(Lower(IF Truthy(snippet) THEN snippet[1] ELSE << >>), Lower(SUCCESS_MARKER))

\* Variant: the marker gates the success flag.
OkFor200Gated(found) == found

\* Lines 191 and 194: result["ok"] on a 200, with and without the marker
OkFor200(found) == TRUE

\* Lines 181-199: classification of the fetch result into `result`.
Classify(result, fr) ==
    IF fr.isdict
    THEN IF "error" \in DOMAIN fr.d
         THEN [result EXCEPT !.message = Some(Msg("Fetch error: ", fr.d.error))]
         ELSE LET status == Get(fr.d, "status")
                  snippet == Get(fr.d, "text")
                  r1 == [result EXCEPT !.http_status = status, !.response_snippet = snippet]
              IN  IF IsSuccessStatus(status)
                  THEN IF MarkerFound(snippet)
                       THEN [r1 EXCEPT !.ok = OkFor200(TRUE), !.message = Some(Msg("HTTP 200 and success marker found.", << >>))]
                       ELSE [r1 EXCEPT !.ok = OkFor200(FALSE), !.message = Some(Msg("HTTP 200, no success marker found.", << >>))]
                  ELSE [r1 EXCEPT !.message = Some(Msg("HTTP ", StatusText(status)))]
    ELSE [result EXCEPT !.message = Some(Msg("Unexpected fetch result: ", fr.d.repr))]

\* Variant: the URL of line 147 carries a trace generated anew instead of
\* the trace of the attempt.
EvaluateFreshTrace(k, E) ==
    /\ w[k].pc = "evaluate"
    /\ \E o \in E.evaluate, u \in E.uuids :
        LET trace == Res(k).trace[1]
            form_pairs == build_payload_with_trace(trace, w[k].nonce)
            f1 == [w[k] EXCEPT !.submits = @ + 1, !.sent = Some([query_trace |-> <<"cli-", u>>, pairs |-> form_pairs]), !.fetched = Some(o)]
        IN  IF o.kind = "raise"
            THEN SetFrame(k, [f1 EXCEPT !.pc = "unwind"])
            ELSE SetFrame(k, [f1 EXCEPT !.pc = "close", !.result = Some(Classify(Res(k), FetchScript(o)))])
    /\ UNCHANGED <<config, session, calls, dpc, i, out, tasks, resq, sleeps, returned>>

\* Lines 145-199: build the payload, run the in-page submission, classify.
Evaluate(k, E) ==
    /\ w[k].pc = "evaluate"
    /\ \E o \in E.evaluate :
        LET trace == Res(k).trace[1]
            form_pairs == build_payload_with_trace(trace, w[k].nonce)
            f1 == [w[k] EXCEPT !.submits = @ + 1, !.sent = Some([query_trace |-> trace, pairs |-> form_pairs]), !.fetched = Some(o)]
        IN  IF o.kind = "raise"
            THEN SetFrame(k, [f1 EXCEPT !.pc = "unwind"])
            ELSE SetFrame(k, [f1 EXCEPT !.pc = "close", !.result = Some(Classify(Res(k), FetchScript(o)))])
    /\ UNCHANGED <<config, session, calls, dpc, i, out, tasks, resq, sleeps, returned>>

\* Line 201: browser.close() at the end of the with block.
Close(k, E) ==
    /\ w[k].pc = "close"
    /\ \E o \in E.close :
        IF o = "ok"
        THEN session' = session \ {k} /\ SetFrame(k, [w[k] EXCEPT !.pc = "return"])
        ELSE session' = session /\ SetFrame(k, [w[k] EXCEPT !.pc = "unwind"])
    /\ UNCHANGED <<config, calls, dpc, i, out, tasks, resq, sleeps, returned>>

\* Variant: the browser is closed by browser.close() only, so an exception
\* leaves it running.
UnwindNoStop(k) ==
    /\ w[k].pc = "unwind"
    /\ SetFrame(k, [w[k] EXCEPT !.pc = "return", !.result = Some([Res(k) EXCEPT !.message = Some(Msg("Unhandled exception: ", ExcText))])])
    /\ UNCHANGED <<config, session, calls, dpc, i, out, tasks, resq, sleeps, returned>>

\* Variant: the handler of line 203 swallows the exception (`pass`).
UnwindSilent(k) ==
    /\ w[k].pc = "unwind"
    /\ session' = session \ {k}
    /\ SetFrame(k, [w[k] EXCEPT !.pc = "return"])
    /\ UNCHANGED <<config, calls, dpc, i, out, tasks, resq, sleeps, returned>>

\* Lines 112 and 203-204: an exception leaves the with block, whose exit
\* stops Playwright and with it the browser it launched; the handler of
\* line 203 then overwrites the message and nothing else.
Unwind(k) ==
    /\ w[k].pc = "unwind"
    /\ session' = session \ {k}
    /\ SetFrame(k, [w[k] EXCEPT !.pc = "return", !.result = Some([Res(k) EXCEPT !.message = Some(Msg("Unhandled exception: ", ExcText))])])
    /\ UNCHANGED <<config, calls, dpc, i, out, tasks, resq, sleeps, returned>>

\* The steps of worker_send for index k.
WorkerStep(k, E) ==
    \/ Import(k, E)
    \/ Launch(k, E)
    \/ Goto1(k, E)
    \/ Goto2(k, E)
    \/ NavClose(k, E)
    \/ Query(k, E)
    \/ Wait(k, E)
    \/ Evaluate(k, E)
    \/ Close(k, E)
    \/ Unwind(k)

\* ------------------------------------------------------- run_sequential
\* Line 221: the call worker_send((i, ...)) of the loop body.
SeqCall ==
    /\ ~parallel
    /\ dpc = "loop"
    /\ i <= reps
    /\ w' = [w EXCEPT ![i] = Frame("import")]
    /\ calls' = [calls EXCEPT ![i] = @ + 1]
    /\ dpc' = "call"
    /\ UNCHANGED <<config, session, i, out, tasks, resq, sleeps, returned>>

\* Variant: a failed attempt ends the loop (break after the append).
SeqAppendBreakOnFailure ==
    /\ ~parallel
    /\ dpc = "call"
    /\ w[i].pc = "return"
    /\ out' = Append(out, Res(i))
    /\ w' = [w EXCEPT ![i] = Frame("done")]
    /\ IF ~Res(i).ok
       THEN dpc' = "loop" /\ sleeps' = sleeps /\ i' = reps + 1
       ELSE IF i < reps
            THEN dpc' = "sleep" /\ sleeps' = sleeps + 1 /\ i' = i
            ELSE dpc' = "loop" /\ sleeps' = sleeps /\ i' = i + 1
    /\ UNCHANGED <<config, session, calls, tasks, resq, returned>>

\* Variant: a failed attempt is retried once instead of being recorded.
SeqAppendRetry ==
    /\ ~parallel
    /\ dpc = "call"
    /\ w[i].pc = "return"
    /\ IF ~Res(i).ok /\ calls[i] < 2
       THEN /\ w' = [w EXCEPT ![i] = Frame("idle")]
            /\ dpc' = "loop"
            /\ UNCHANGED <<out, sleeps, i>>
       ELSE /\ out' = Append(out, Res(i))
            /\ w' = [w EXCEPT ![i] = Frame("done")]
            /\ IF i < reps
               THEN dpc' = "sleep" /\ sleeps' = sleeps + 1 /\ i' = i
               ELSE dpc' = "loop" /\ sleeps' = sleeps /\ i' = i + 1
    /\ UNCHANGED <<config, session, calls, tasks, resq, returned>>

\* Variant: the loop sleeps after every attempt, the last one included.
SeqAppendSleepAlways ==
    /\ ~parallel
    /\ dpc = "call"
    /\ w[i].pc = "return"
    /\ out' = Append(out, Res(i))
    /\ w' = [w EXCEPT ![i] = Frame("done")]
    /\ dpc' = "sleep"
    /\ sleeps' = sleeps + 1
    /\ i' = i
    /\ UNCHANGED <<config, session, calls, tasks, resq, returned>>

\* Lines 221-230: worker_send returns, the result is appended, and the
\* loop sleeps unless this was the last index.
SeqAppend ==
    /\ ~parallel
    /\ dpc = "call"
    /\ w[i].pc = "return"
    /\ out' = Append(out, Res(i))
    /\ w' = [w EXCEPT ![i] = Frame("done")]
    /\ IF i < reps
       THEN dpc' = "sleep" /\ sleeps' = sleeps + 1 /\ i' = i
       ELSE dpc' = "loop" /\ sleeps' = sleeps /\ i' = i + 1
    /\ UNCHANGED <<config, session, calls, tasks, resq, returned>>

\* Line 230: time.sleep ends, the loop takes the next index.
SeqSleepEnd ==
    /\ ~parallel
    /\ dpc = "sleep"
    /\ i' = i + 1
    /\ dpc' = "loop"
    /\ UNCHANGED <<config, w, session, calls, out, tasks, resq, sleeps, returned>>

\* Line 232: return out.
SeqReturn ==
    /\ ~parallel
    /\ dpc = "loop"
    /\ i > reps
    /\ returned' = Some(out)
    /\ dpc' = "done"
    /\ UNCHANGED <<config, w, session, calls, i, out, tasks, resq, sleeps>>

\* --------------------------------------------------------- run_parallel
RECURSIVE InsertByIndex(_, _)
\* insert x after the elements whose key is not larger (the sort is stable)
InsertByIndex(s, x) ==
    IF s = << >> THEN << x >>
    ELSE IF Get(s[Len(s)], "index") <= Get(x, "index") THEN Append(s, x)
    ELSE Append(InsertByIndex(SubSeq(s, 1, Len(s) - 1), x), s[Len(s)])

RECURSIVE SortByIndexFrom(_, _)
SortByIndexFrom(sorted, rest) == IF rest = << >> THEN sorted ELSE SortByIndexFrom(InsertByIndex(sorted, Head(rest)), Tail(rest))

\* Variant: the list is returned in completion order.
SortByIndexOmitted(s) == s

\* Line 259: out.sort(key=lambda x: x.get("index", 0))
SortByIndex(s) == SortByIndexFrom(<< >>, s)

\* Lines 240-246: build args, create the pool, hand the tasks to it.
ParDispatch ==
    /\ parallel
    /\ dpc = "start"
    /\ tasks' = [n \in 1..reps |-> n]
    /\ dpc' = "collect"
    /\ UNCHANGED <<config, w, session, calls, i, out, resq, sleeps, returned>>

\* Variant: one process per task, whatever `workers` says.
PoolStartUnbounded(k) ==
    /\ parallel
    /\ dpc \in {"collect", "sleep"}
    /\ tasks # << >>
    /\ k = Head(tasks)
    /\ tasks' = Tail(tasks)
    /\ w' = [w EXCEPT ![k] = Frame("import")]
    /\ calls' = [calls EXCEPT ![k] = @ + 1]
    /\ UNCHANGED <<config, session, dpc, i, out, resq, sleeps, returned>>

\* Lines 245-246: an idle process of the pool takes the next task and calls
\* worker_send on it; the pool has `workers` processes.
PoolStart(k) ==
    /\ parallel
    /\ dpc \in {"collect", "sleep"}
    /\ tasks # << >>
    /\ k = Head(tasks)
    /\ Cardinality(InFlight) < workers
    /\ tasks' = Tail(tasks)
    /\ w' = [w EXCEPT ![k] = Frame("import")]
    /\ calls' = [calls EXCEPT ![k] = @ + 1]
    /\ UNCHANGED <<config, session, dpc, i, out, resq, sleeps, returned>>

\* Variant: the result of a failed attempt is not handed to the iterator.
PoolReturnDropsFailures(k) ==
    /\ parallel
    /\ w[k].pc = "return"
    /\ resq' = IF Res(k).ok THEN Append(resq, Res(k)) ELSE resq
    /\ w' = [w EXCEPT ![k] = Frame("done")]
    /\ UNCHANGED <<config, session, calls, dpc, i, out, tasks, sleeps, returned>>

\* Line 246: worker_send returns in the pool process; its result becomes
\* available to the iterator of imap_unordered, in completion order.
PoolReturn(k) ==
    /\ parallel
    /\ w[k].pc = "return"
    /\ resq' = Append(resq, Res(k))
    /\ w' = [w EXCEPT ![k] = Frame("done")]
    /\ UNCHANGED <<config, session, calls, dpc, i, out, tasks, sleeps, returned>>

\* Variant: no sleep after the last completion (`if len(out) < reps`).
ParObserveNoFinalSleep ==
    /\ parallel
    /\ dpc = "collect"
    /\ resq # << >>
    /\ out' = Append(out, Head(resq))
    /\ resq' = Tail(resq)
    /\ IF Len(out) + 1 < reps
       THEN sleeps' = sleeps + 1 /\ dpc' = "sleep"
       ELSE sleeps' = sleeps /\ dpc' = "collect"
    /\ UNCHANGED <<config, w, session, calls, i, tasks, returned>>

\* Lines 248-257: the loop takes the next completed result, appends it and
\* sleeps.
ParObserve ==
    /\ parallel
    /\ dpc = "collect"
    /\ resq # << >>
    /\ out' = Append(out, Head(resq))
    /\ resq' = Tail(resq)
    /\ sleeps' = sleeps + 1
    /\ dpc' = "sleep"
    /\ UNCHANGED <<config, w, session, calls, i, tasks, returned>>

\* Line 257: time.sleep ends.
ParSleepEnd ==
    /\ parallel
    /\ dpc = "sleep"
    /\ dpc' = "collect"
    /\ UNCHANGED <<config, w, session, calls, i, out, tasks, resq, sleeps, returned>>

\* Lines 248 and 259-260: the iterator is exhausted once it has yielded one
\* result per task; sort and return.
ParReturn ==
    /\ parallel
    /\ dpc = "collect"
    /\ Len(out) = reps
    /\ returned' = Some(SortByIndex(out))
    /\ dpc' = "done"
    /\ UNCHANGED <<config, w, session, calls, i, out, tasks, resq, sleeps>>

\* ------------------------------------------------------- specifications
Selectors == {None, Some(<< >>), Some(<<"#", "f">>)}

\* main, lines 290-299: the state when the chosen dispatcher is entered.
InitRun(repsSet, parallelSet, workersSet) ==
    /\ reps \in repsSet
    /\ parallel \in parallelSet
    /\ workers \in workersSet
    /\ wait_for_selector \in Selectors
    /\ w = [k \in 1..reps |-> Frame("idle")]
    /\ session = {}
    /\ calls = [k \in 1..reps |-> 0]
    /\ dpc = IF parallel THEN "start" ELSE "loop"
    /\ i = 1
    /\ out = << >>
    /\ tasks = << >>
    /\ resq = << >>
    /\ sleeps = 0
    /\ returned = None

\* Both dispatchers on 1..MaxReps attempts.
Init == InitRun(1..MaxReps, BOOLEAN, 1..MaxWorkers)

Next ==
    \/ SeqCall
    \/ SeqAppend
    \/ SeqSleepEnd
    \/ SeqReturn
    \/ ParDispatch
    \/ ParObserve
    \/ ParSleepEnd
    \/ ParReturn
    \/ \E k \in Indices : PoolStart(k)
    \/ \E k \in Indices : PoolReturn(k)
    \/ \E k \in Indices : WorkerStep(k, EnvCoarse)

Spec == Init /\ [][Next]_vars

\* One invocation of worker_send (run_sequential with reps = 1), with every
\* outcome and several data values of each browser call.
InitWorker == InitRun({1}, {FALSE}, {1})

NextWorker ==
    \/ SeqCall
    \/ SeqAppend
    \/ SeqReturn
    \/ \E k \in Indices : WorkerStep(k, EnvFull)

SpecWorker == InitWorker /\ [][NextWorker]_vars

\* =============================================================== claims
\* Results that worker_send has returned or is about to return.
SeqResults(q) == {q[n] : n \in 1..Len(q)}

ReturnedResults == {Res(k) : k \in {j \in Indices : w[j].pc = "return"}} \cup SeqResults(out) \cup SeqResults(resq)

Prefix(r) == IF Get(r, "message") = None THEN "" ELSE r.message[1].prefix

Unhandled == "Unhandled exception: "

\* C1: the list returned by either dispatcher has exactly reps results and
\* every index of 1..reps occurs in it exactly once.
C1_ExactlyNResults ==
    returned # None =>
        /\ Len(returned[1]) = reps
        /\ \A k \in 1..reps : Cardinality({n \in 1..Len(returned[1]) : returned[1][n].index = k}) = 1

\* a run of two or more attempts has returned, one attempt failed and one succeeded
C1_Witness ==
    /\ returned # None
    /\ reps >= 2
    /\ \E m, n \in 1..Len(returned[1]) : returned[1][m].ok /\ ~returned[1][n].ok

\* C2: the list returned by run_parallel is in strictly ascending index
\* order, whatever the completion order.
C2_ParallelSorted ==
    (parallel /\ returned # None) =>
        \A n \in 1..(Len(returned[1]) - 1) : returned[1][n].index < returned[1][n + 1].index

\* run_parallel has returned although a later index completed first
C2_Witness ==
    /\ parallel
    /\ returned # None
    /\ \E n \in 1..(Len(out) - 1) : out[n].index > out[n + 1].index

\* C3: every result returned by worker_send has ok true exactly when its
\* http_status is 200.
C3_OkIffStatus200 == \A r \in ReturnedResults : r.ok <=> (Get(r, "http_status") = Some(200))

\* a 200 result returned with ok true
C3_Witness == \E r \in ReturnedResults : r.ok /\ Get(r, "http_status") = Some(200) /\ Prefix(r) = "HTTP 200, no success marker found."

\* C4: worker_send is never invoked twice with the same index, and when
\* the dispatcher returns it has been invoked once with every index.
C4_EachIndexOnce ==
    /\ \A k \in Indices : calls[k] <= 1
    /\ returned # None => \A k \in Indices : calls[k] = 1

\* the first attempt of a sequential run failed and the run went on to the end
C4_Witness ==
    /\ ~parallel
    /\ returned # None
    /\ reps >= 2
    /\ ~out[1].ok
    /\ \A k \in Indices : calls[k] = 1

\* C5: once worker_send returns, the browser session it opened is closed.
C5_SessionClosedOnReturn == \A k \in Indices : w[k].pc \in {"return", "done"} => k \notin session

\* worker_send returns after page.evaluate raised, with its session closed
C5_Witness == \E k \in Indices : w[k].pc = "return" /\ w[k].fetched # None /\ w[k].fetched[1].kind = "raise" /\ k \notin session

\* C6: no returned result has an "Unhandled exception" message together
\* with success = true.
C6_UnhandledImpliesFailure == \A r \in ReturnedResults : Prefix(r) = Unhandled => ~r.ok

\* C7 (as stated): after a timeout under "networkidle" and a failure under
\* "load" the result has success = false and the message "Failed to load
\* page", nothing was submitted, http_status and response_snippet are absent.
NavFailed(k) == w[k].goto1 = "timeout" /\ w[k].goto2 \notin {"", "ok"}

C7_AsStated ==
    \A k \in Indices : (w[k].pc = "return" /\ NavFailed(k)) =>
        /\ ~Res(k).ok
        /\ Prefix(Res(k)) = "Failed to load page: "
        /\ w[k].submits = 0
        /\ Get(Res(k), "http_status") = None
        /\ Get(Res(k), "response_snippet") = None

\* C7 (amended): the same, except that the message is "Unhandled
\* exception" when the browser.close() of the failure path raises; before
\* that close the message is "Failed to load page".
C7_NavFailure ==
    \A k \in Indices : (w[k].pc \in {"navclose", "unwind", "return"} /\ NavFailed(k)) =>
        /\ ~Res(k).ok
        /\ w[k].submits = 0
        /\ w[k].lookups = 0
        /\ Get(Res(k), "http_status") = None
        /\ Get(Res(k), "response_snippet") = None
        /\ w[k].pc # "return" => Prefix(Res(k)) = "Failed to load page: "
        /\ w[k].pc = "return" => Prefix(Res(k)) \in {"Failed to load page: ", Unhandled}

\* both navigations failed and worker_send returns the navigation message
C7_Witness == \E k \in Indices : w[k].pc = "return" /\ NavFailed(k) /\ Prefix(Res(k)) = "Failed to load page: " /\ k \notin session

\* C8: the attempts in execution (inside worker_send, or with an open
\* browser session) never outnumber the pool processes in run_parallel, and
\* never exceed one in run_sequential.
C8_BoundedConcurrency == Cardinality(InFlight \cup session) <= IF parallel THEN workers ELSE 1

\* every pool process holds an open session while a task is still waiting
C8_Witness == parallel /\ tasks # << >> /\ Cardinality(session) = workers

\* the marker occurs in the text, letters compared without regard to case
SameLetter(a, b) == a = b \/ \E n \in 1..26 : {a, b} = {UpperCase[n], LowerCase[n]}

OccursIgnoringCase(text, marker) == \E n \in 0..(Len(text) - Len(marker)) : \A j \in 1..Len(marker) : SameLetter(text[n + j], marker[j])

Excerpt(r) == IF Get(r, "response_snippet") = None THEN << >> ELSE r.response_snippet[1]

Got(k, status) == w[k].fetched # None /\ w[k].fetched[1].kind = "response" /\ w[k].fetched[1].status = status

MarkerMessageRight(r) ==
    /\ Prefix(r) = "HTTP 200 and success marker found." <=> OccursIgnoringCase(Excerpt(r), SUCCESS_MARKER)
    /\ Prefix(r) = "HTTP 200, no success marker found." <=> ~OccursIgnoringCase(Excerpt(r), SUCCESS_MARKER)

DigitValue(c) == IF \E d \in 1..10 : Digits[d] = c THEN (CHOOSE d \in 1..10 : Digits[d] = c) - 1 ELSE 0 - 1

RECURSIVE NumeralValue(_)
NumeralValue(t) == IF t = << >> THEN 0 ELSE 10 * NumeralValue(SubSeq(t, 1, Len(t) - 1)) + DigitValue(t[Len(t)])

IsNumeralOf(t, n) == t # << >> /\ (\A j \in 1..Len(t) : DigitValue(t[j]) >= 0) /\ (Len(t) > 1 => t[1] # "0") /\ NumeralValue(t) = n

HttpMessageRight(r, status) == Prefix(r) = "HTTP " /\ IsNumeralOf(r.message[1].arg, status)

NonOkStatuses == {201, 403, 500}

\* C10 (as stated): for a submission answered with a status s other than
\* 200 the result has success = false, http_status = s and the message
\* "HTTP s".
C10_AsStated ==
    \A k \in Indices, s \in NonOkStatuses : (w[k].pc = "return" /\ Got(k, s)) =>
        (~Res(k).ok /\ Get(Res(k), "http_status") = Some(s) /\ HttpMessageRight(Res(k), s))

\* C10 (amended): the same, except that the message is "Unhandled
\* exception" when the final browser.close() raises.
C10_HttpMessage ==
    \A k \in Indices, s \in NonOkStatuses : (w[k].pc \in {"close", "unwind", "return"} /\ Got(k, s)) =>
        /\ ~Res(k).ok
        /\ Get(Res(k), "http_status") = Some(s)
        /\ w[k].pc # "return" => HttpMessageRight(Res(k), s)
        /\ w[k].pc = "return" => (Prefix(Res(k)) = Unhandled \/ HttpMessageRight(Res(k), s))

\* a 403 is returned as "HTTP 403"
C10_Witness == \E k \in Indices : w[k].pc = "return" /\ Got(k, 403) /\ Res(k).message = Some(Msg("HTTP ", <<"4", "0", "3">>)) /\ ~Res(k).ok

\* the values of the fields named key, in order
FieldValues(pairs, key) == SelectSeq(pairs, LAMBDA pr : pr[1] = key)

NoncePresent(nonce) == nonce # None /\ Len(nonce[1]) > 0

\* the base template, then trace_id, then _nonce when it is present and non-empty
ExpectedPayload(trace, nonce) ==
    BASE_PAYLOAD \o << <<"trace_id", trace>> >> \o (IF NoncePresent(nonce) THEN << <<"_nonce", nonce[1]>> >> ELSE << >>)

\* C11: the payload built from a trace and a nonce is the base template in
\* template order, then (trace_id, trace), then one (_nonce, nonce) pair
\* exactly when the nonce is present and non-empty.
C11_PayloadShape ==
    \A k \in Indices : w[k].sent # None =>
        /\ w[k].sent[1].pairs = ExpectedPayload(Res(k).trace[1], w[k].nonce)
        /\ Len(FieldValues(w[k].sent[1].pairs, "_nonce")) = IF NoncePresent(w[k].nonce) THEN 1 ELSE 0

\* a payload was built from an empty nonce and has no _nonce field
C11_Witness == \E k \in Indices : w[k].sent # None /\ w[k].nonce = Some(<< >>) /\ FieldValues(w[k].sent[1].pairs, "_nonce") = << >>

\* C12: for an attempt that reached the submission, the trace of the
\* query parameter, the trace_id field of the payload and the trace of the
\* result are the same value, from the submission to the return.
C12_OneTrace ==
    \A k \in Indices : w[k].sent # None =>
        /\ Get(Res(k), "trace") = Some(w[k].sent[1].query_trace)
        /\ FieldValues(w[k].sent[1].pairs, "trace_id") = << <<"trace_id", w[k].sent[1].query_trace>> >>

\* worker_send returns a classified result whose trace is the one submitted
C12_Witness == \E k \in Indices : w[k].pc = "return" /\ w[k].sent # None /\ Get(Res(k), "http_status") # None /\ Get(Res(k), "trace") = Some(w[k].sent[1].query_trace)

\* attempts on which worker_send has been invoked
Started == {k \in Indices : calls[k] > 0}

\* pacing sleeps that have ended
SleepsDone == sleeps - (IF dpc = "sleep" THEN 1 ELSE 0)

\* C13: in run_parallel a pacing sleep lies between the starts of any two
\* attempts, so the attempts started never outnumber the sleeps ended by
\* more than one.
C13_SleepBetweenStarts == parallel => Cardinality(Started) <= SleepsDone + 1

\* C14: in run_sequential attempt k+1 starts only after attempt k has
\* returned with its session closed and k sleeps have ended; one sleep
\* follows each attempt but the last, reps - 1 in a run.
C14_SequentialPacing ==
    ~parallel =>
        /\ \A k \in Indices : (k > 1 /\ calls[k] > 0) => (w[k - 1].pc = "done" /\ (k - 1) \notin session /\ SleepsDone >= k - 1)
        /\ sleeps = IF Len(out) = reps THEN reps - 1 ELSE Len(out)
        /\ returned # None => (sleeps = reps - 1 /\ SleepsDone = reps - 1)

\* a sequential run of two or more attempts has returned after reps - 1 sleeps
C14_Witness == ~parallel /\ reps >= 2 /\ returned # None /\ sleeps = reps - 1 /\ Len(returned[1]) = reps

\* C15: run_parallel sleeps once after each completion it observes, the
\* last one included, and the sleep does not hold the pool back: while the
\* dispatcher sleeps a waiting task can start on an idle process and a
\* finished attempt can deliver its result.
C15_SleepPerCompletion ==
    parallel =>
        /\ sleeps = Len(out)
        /\ returned # None => sleeps = reps
        /\ dpc = "sleep" => \A k \in Indices :
            /\ (tasks # << >> /\ Head(tasks) = k /\ Cardinality(InFlight) < workers) => ENABLED PoolStart(k)
            /\ w[k].pc = "return" => ENABLED PoolReturn(k)

\* the dispatcher sleeps after the last completion while nothing is left to do
C15_Witness == parallel /\ reps >= 2 /\ dpc = "sleep" /\ sleeps = reps /\ Len(out) = reps

Executed(outcome) == IF outcome = "" THEN 0 ELSE 1

\* C16: the "load" navigation is performed exactly when the "networkidle"
\* navigation timed out; there are at most two navigations, and at most one
\* token lookup, one selector wait and one submission in an attempt.
C16_SingleFallback ==
    \A k \in Indices :
        /\ w[k].pc = "goto2" => (w[k].goto1 = "timeout" /\ w[k].goto2 = "")
        /\ w[k].pc # "goto2" => (w[k].goto2 # "" <=> w[k].goto1 = "timeout")
        /\ w[k].navs = Executed(w[k].goto1) + Executed(w[k].goto2)
        /\ w[k].lookups <= 1
        /\ w[k].waits <= 1
        /\ w[k].submits <= 1

\* worker_send returns after a timeout, a successful second navigation and one submission
C16_Witness == \E k \in Indices : w[k].pc = "return" /\ w[k].goto1 = "timeout" /\ w[k].goto2 = "ok" /\ w[k].navs = 2 /\ w[k].submits = 1

NavOk(k) == w[k].goto1 = "ok" \/ w[k].goto2 = "ok"

\* C17: with a readiness selector configured, an attempt whose navigation
\* succeeded has waited for the selector by the time it builds and submits
\* the payload, whatever the token lookup did.
C17_WaitsBeforeSubmit ==
    \A k \in Indices : (Truthy(wait_for_selector) /\ NavOk(k) /\ w[k].pc \in {"evaluate", "close", "unwind", "return"}) => w[k].waits = 1

\* C18: after a successful navigation the attempt goes through the token
\* lookup and the selector wait to exactly one submission, whatever these
\* two steps do, and a payload built without a harvested token has no
\* _nonce field.
C18_BestEffortSteps ==
    \A k \in Indices : NavOk(k) =>
        /\ w[k].pc \in {"query", "wait", "evaluate", "close", "unwind", "return"}
        /\ w[k].submits = IF w[k].pc \in {"close", "unwind", "return"} THEN 1 ELSE 0
        /\ w[k].fetched # None <=> w[k].submits = 1
        /\ (w[k].sent # None /\ w[k].nonce = None) => FieldValues(w[k].sent[1].pairs, "_nonce") = << >>

\* the token lookup raised (the configured selector wait was skipped) and
\* the submission was still made, without a _nonce field
C18_Witness ==
    \E k \in Indices :
        /\ w[k].pc = "return"
        /\ Truthy(wait_for_selector)
        /\ w[k].lookups = 1
        /\ w[k].waits = 0
        /\ w[k].submits = 1
        /\ Get(Res(k), "http_status") = Some(200)
        /\ FieldValues(w[k].sent[1].pairs, "_nonce") = << >>

\* C19: every returned result has a message, and it has an http_status
\* only if the submission was executed and the server answered it.
C19_MessageAndStatus ==
    /\ \A r \in ReturnedResults : Get(r, "message") # None
    /\ \A k \in Indices : (w[k].pc = "return" /\ Get(Res(k), "http_status") # None) =>
        (w[k].submits = 1 /\ w[k].fetched # None /\ w[k].fetched[1].kind = "response")

\* a fetch error is returned with a message and without an http_status
C19_Witness == \E k \in Indices : w[k].pc = "return" /\ w[k].fetched # None /\ w[k].fetched[1].kind = "neterror" /\ Prefix(Res(k)) = "Fetch error: " /\ Get(Res(k), "http_status") = None

\* The outcomes that make an attempt succeed, fail in the navigation, or
\* end by an exception: the mix of outcomes the dispatchers can meet.
EnvLive ==
    [importOk |-> BOOLEAN,
     uuids |-> {"u1"},
     launch |-> {"ok", "raise_launch"},
     goto1 |-> {"ok", "timeout"},
     goto2 |-> {"timeout"},
     query |-> {"none"},
     values |-> {None},
     wait |-> {"timeout"},
     evaluate |-> Responses({200}, {BodyMixed}),
     close |-> {"ok", "raise"}]

InitLive == Init /\ wait_for_selector = Some(<<"#", "f">>)

DispatcherStep == SeqCall \/ SeqAppend \/ SeqSleepEnd \/ SeqReturn \/ ParDispatch \/ ParObserve \/ ParSleepEnd \/ ParReturn

AttemptStep(k) == k \in Indices /\ (PoolStart(k) \/ PoolReturn(k) \/ WorkerStep(k, EnvLive))

NextLive ==
    \/ DispatcherStep
    \/ \E k \in Indices : AttemptStep(k)

\* Scheduling: the dispatcher is a running process, every time.sleep ends,
\* every pool process is scheduled, and every browser call returns or
\* raises, so no enabled step of the dispatcher or of an attempt is put off
\* for ever.
FairSpec == InitLive /\ [][NextLive]_vars /\ WF_vars(DispatcherStep) /\ \A k \in 1..MaxReps : WF_vars(AttemptStep(k))

\* C20: under that scheduling every run of run_sequential and of
\* run_parallel ends by returning its result list.
C20_Terminates == <>(returned # None)

\* a parallel run with fewer processes than attempts has returned
C20_Witness == parallel /\ workers < reps /\ returned # None /\ Len(returned[1]) = reps

====
